---- MODULE Spec2Model ----
(***************************************************************************)
(* Model of app.py: the conversation registry (get_or_create_thread,       *)
(* reset_user_thread), the quota gate and run driver behind /ask, and the  *)
(* HTTP handlers in front of them.  One user record lives in the external  *)
(* record store (Backendless); threads, messages and runs live in the      *)
(* remote engine (OpenAI).  Every handler is cut into one step per remote  *)
(* call: a step is the call plus the local code up to the next call, so    *)
(* concurrent requests interleave exactly at the calls, as Flask's         *)
(* threaded request handling allows.  Every remote call may also fail      *)
(* (raise), which takes the handler to its except clause.                  *)
(***************************************************************************)
EXTENDS Integers, Sequences, FiniteSets, TLC

VARIABLES
    userRecord,    \* the user's row in the record store: field name -> value
    threads,       \* engine: ids of the conversations that exist
    nextThreadId,  \* engine: the id the next threads.create() returns
    messages,      \* engine: thread id -> messages, newest first
    runs,          \* engine: run id -> [thread, status, prompt]
    req,           \* one record per request slot: inputs, position, locals, response
    started,       \* number of requests received so far
    response,      \* the response of the request that returned last
    hist,          \* history: what was true at the start, what was granted
    subscription   \* the user's row in the Subscriptions table, or NoRow

vars ==
    <<userRecord, threads, nextThreadId, messages, runs, req, started, response, hist,
      subscription>>

(***************************** bounds ***************************************)
NumProcs == 2
MaxRequests == 3
MaxThreads == 2
MaxPolls == 3
PageSize == 1
MaxRuns == 1
MaxLen == 5
MaxChunks == 2

Procs == 1..NumProcs
ThreadIds == 1..MaxThreads

(************************** program constants *******************************)
\* Python's None, also the value of a handle field that was cleared.
None == 0
\* `if daily_count >= 100`
DailyLimit == 100

HTTP_OK == 200
HTTP_BAD_REQUEST == 400
HTTP_UNAUTHORIZED == 401
HTTP_NOT_FOUND == 404
HTTP_TOO_MANY == 429
HTTP_SERVER_ERROR == 500

\* `while run.status in ['queued', 'in_progress', 'cancelling']`
PollingStatuses == {"queued", "in_progress", "cancelling"}

(************************* the record store *********************************)
\* dict.get(key, default)
Get(user_data, key, default) ==
    IF key \in DOMAIN user_data THEN user_data[key] ELSE default

\* httpx.put(user_url, json=payload): the store updates the fields the payload
\* names and keeps the others.
StorePut(record, payload) ==
    [f \in (DOMAIN record) \cup (DOMAIN payload) |->
        IF f \in DOMAIN payload THEN payload[f] ELSE record[f]]

NoFields == [f \in {} |-> None]

\* The Subscriptions table holds no row for the user; the row as it is
\* before any payment.
NoRow == [f \in {} |-> None]
InactiveRow == [objectId |-> 1, status |-> "inactive", stripeSubscriptionId |-> None]

\* The handle the record carries, None when the field is absent or cleared.
Handle == Get(userRecord, "currentThreadId", None)
\* The counter the record carries, read the way ask reads it.
Counter == Get(userRecord, "dailyQuestionCount", 0)

(**************************** request slots *********************************)
\* A checkout session of the payment processor as the handlers read it, and
\* the value of the local before any session is in hand.
Sessions ==
    [status : {"complete", "open"}, payment_status : {"paid", "unpaid"},
     client_reference_id : {None, 1}, subscription : {None, 1}]
NoSession ==
    [status |-> "", payment_status |-> "", client_reference_id |-> None,
     subscription |-> None]

\* A server thread with no request: no position, no locals.
Idle ==
    [op |-> "idle", pc |-> "done", thread_id |-> None, prompt |-> None,
     tid |-> None, daily_count |-> 0, run |-> 0, polls |-> 0, out |-> <<>>,
     session |-> NoSession, feed |-> <<>>]

NoResponse ==
    [op |-> "idle", status |-> 0, body |-> None, polls |-> 0, out |-> <<>>,
     feed |-> <<>>, at |-> ""]

Free(r) == req[r].pc = "done"
Quiet == \A r \in Procs : Free(r)

\* Server threads are interchangeable: a request is served by the first free one.
Takes(r) == Free(r) /\ \A s \in Procs : Free(s) => r <= s

\* A fresh request of handler op.
Arrive(op) == [Idle EXCEPT !.op = op]

\* `return jsonify(...), status`, with the position the handler returned from;
\* out is the body of a streamed response, polls the status re-fetches and
\* feed the chunks of the engine's event feed behind it.
Answer(op, status, body, at) ==
    [op |-> op, status |-> status, body |-> body, polls |-> 0, out |-> <<>>,
     feed |-> <<>>, at |-> at]

\* A request that is answered before any remote call is made.
Reject(r, op, status) ==
    /\ req' = [req EXCEPT ![r] = Idle]
    /\ response' = Answer(op, status, None, "begin")

\* A request that goes on to its first remote call at position pc.
Proceed(r, q, pc) ==
    /\ req' = [req EXCEPT ![r] = [q EXCEPT !.pc = pc]]
    /\ UNCHANGED response

\* The handler returns: the thread is free again and the response is out.
Return(r, status, body) ==
    /\ req' = [req EXCEPT ![r] = Idle]
    /\ response' = Answer(req[r].op, status, body, req[r].pc)

(************************ get_or_create_thread ******************************)
\* Mutant: the handle is looked up under another field name.
HasThreadWrongKey(user_data) ==
    /\ "threadId" \in DOMAIN user_data
    /\ user_data["threadId"] # None

\* `if 'currentThreadId' in user_data and user_data['currentThreadId']`
HasThread(user_data) ==
    /\ "currentThreadId" \in DOMAIN user_data
    /\ user_data["currentThreadId"] # None

\* Mutant: the handle is written under another field name.
GocUpdatePayloadWrongKey(new_thread_id) == [threadId |-> new_thread_id]

\* `update_payload = {'currentThreadId': new_thread_id}`
GocUpdatePayload(new_thread_id) == [currentThreadId |-> new_thread_id]

\* Mutant: start_chat answers 200 whatever get_or_create_thread returned.
StartChatReplyAlwaysOk(r, thread_id) == Return(r, HTTP_OK, thread_id)

\* STEP 5 of start_chat, on the value get_or_create_thread returned (None
\* from its except clause): `if thread_id: ... else: ..., 500`
StartChatReply(r, thread_id) ==
    IF thread_id # None THEN Return(r, HTTP_OK, thread_id)
    ELSE Return(r, HTTP_SERVER_ERROR, None)

\* start_chat on a request with or without the user-token header and with
\* or without objectId in its body: credential first, then body.
StartChatArrives(r, user_token, hasObjectId) ==
    IF ~user_token THEN Reject(r, "start_chat", HTTP_UNAUTHORIZED)
    ELSE IF ~hasObjectId THEN Reject(r, "start_chat", HTTP_BAD_REQUEST)
    ELSE Proceed(r, Arrive("start_chat"), "goc_get")

\* start_chat up to the call of get_or_create_thread.
StartChatBegin(r) ==
    /\ Takes(r)
    /\ started < MaxRequests
    /\ started' = started + 1
    /\ \E user_token \in BOOLEAN, hasObjectId \in BOOLEAN :
          StartChatArrives(r, user_token, hasObjectId)
    /\ UNCHANGED <<userRecord, threads, nextThreadId, messages, runs, hist, subscription>>

\* STEP 1 and 2: fetch the record; an existing handle is returned at once.
GocGet(r) ==
    /\ req[r].pc = "goc_get"
    /\ \/ StartChatReply(r, None)
       \/ LET user_data == userRecord IN
          IF HasThread(user_data)
          THEN StartChatReply(r, user_data["currentThreadId"])
          ELSE Proceed(r, req[r], "goc_create")
    /\ UNCHANGED <<userRecord, threads, nextThreadId, messages, runs, started, hist, subscription>>

\* STEP 3: openai_client.beta.threads.create()
GocCreate(r) ==
    /\ req[r].pc = "goc_create"
    /\ \/ /\ StartChatReply(r, None)
          /\ UNCHANGED <<threads, nextThreadId>>
       \/ /\ nextThreadId <= MaxThreads
          /\ threads' = threads \cup {nextThreadId}
          /\ nextThreadId' = nextThreadId + 1
          /\ Proceed(r, [req[r] EXCEPT !.tid = nextThreadId], "goc_put")
    /\ UNCHANGED <<userRecord, messages, runs, started, hist, subscription>>

\* STEP 4: write the new handle back; start_chat answers with it.
GocPut(r) ==
    /\ req[r].pc = "goc_put"
    /\ \/ /\ StartChatReply(r, None)
          /\ UNCHANGED userRecord
       \/ /\ userRecord' = StorePut(userRecord, GocUpdatePayload(req[r].tid))
          /\ StartChatReply(r, req[r].tid)
    /\ UNCHANGED <<threads, nextThreadId, messages, runs, started, hist, subscription>>

(************************** reset_user_thread *******************************)
\* Mutant: the reset clears another field name.
ResetUpdatePayloadWrongKey == [threadId |-> None]

\* Mutant: the reset also starts the counter again.
ResetUpdatePayloadClearsCounter == [currentThreadId |-> None, dailyQuestionCount |-> 0]

\* `update_payload = {'currentThreadId': None}`
ResetUpdatePayload == [currentThreadId |-> None]

\* STEP 5 of reset_thread, on the value reset_user_thread returned (False from
\* its except clause).
ResetReply(r, success) ==
    IF success THEN Return(r, HTTP_OK, None) ELSE Return(r, HTTP_SERVER_ERROR, None)

\* reset_thread on a request with or without the user-token header and with
\* or without objectId in its body: credential first, then body.
ResetArrives(r, user_token, hasObjectId) ==
    IF ~user_token THEN Reject(r, "reset_thread", HTTP_UNAUTHORIZED)
    ELSE IF ~hasObjectId THEN Reject(r, "reset_thread", HTTP_BAD_REQUEST)
    ELSE Proceed(r, Arrive("reset_thread"), "rst_get")

\* reset_thread up to the call of reset_user_thread.
ResetBegin(r) ==
    /\ Takes(r)
    /\ started < MaxRequests
    /\ started' = started + 1
    /\ \E user_token \in BOOLEAN, hasObjectId \in BOOLEAN :
          ResetArrives(r, user_token, hasObjectId)
    /\ UNCHANGED <<userRecord, threads, nextThreadId, messages, runs, hist, subscription>>

\* Mutant: the deletion is issued whether or not a handle was found.
ResetGetAlwaysDeletes(r) ==
    /\ req[r].pc = "rst_get"
    /\ \/ ResetReply(r, FALSE)
       \/ LET current_thread_id == Get(userRecord, "currentThreadId", None) IN
          Proceed(r, [req[r] EXCEPT !.tid = current_thread_id], "rst_delete")
    /\ UNCHANGED <<userRecord, threads, nextThreadId, messages, runs, started, hist,
                   subscription>>

\* STEP 1 and 2: fetch the record and read the current handle.
ResetGet(r) ==
    /\ req[r].pc = "rst_get"
    /\ \/ ResetReply(r, FALSE)
       \/ LET current_thread_id == Get(userRecord, "currentThreadId", None) IN
          Proceed(r, [req[r] EXCEPT !.tid = current_thread_id],
                  IF current_thread_id # None THEN "rst_delete" ELSE "rst_put")
    /\ UNCHANGED <<userRecord, threads, nextThreadId, messages, runs, started, hist, subscription>>

\* Mutant: a failed deletion is swallowed and reset goes on to clear the field.
ResetDeleteIgnoringFailure(r) ==
    /\ req[r].pc = "rst_delete"
    /\ threads' = threads \ {req[r].tid}
    /\ Proceed(r, req[r], "rst_put")
    /\ UNCHANGED <<userRecord, nextThreadId, messages, runs, started, hist, subscription>>

\* STEP 3: openai_client.beta.threads.delete(thread_id=current_thread_id).  The
\* engine answers 404 for a conversation that does not exist, which the client
\* raises; any exception ends reset_user_thread in its except clause.
ResetDelete(r) ==
    /\ req[r].pc = "rst_delete"
    /\ \/ /\ ResetReply(r, FALSE)
          /\ UNCHANGED threads
       \/ /\ req[r].tid \in threads
          /\ threads' = threads \ {req[r].tid}
          /\ Proceed(r, req[r], "rst_put")
    /\ UNCHANGED <<userRecord, nextThreadId, messages, runs, started, hist, subscription>>

\* STEP 4: clear the handle field.
ResetPut(r) ==
    /\ req[r].pc = "rst_put"
    /\ \/ /\ ResetReply(r, FALSE)
          /\ UNCHANGED <<userRecord, hist>>
       \/ /\ userRecord' = StorePut(userRecord, ResetUpdatePayload)
          /\ ResetReply(r, TRUE)
          /\ hist' = [hist EXCEPT !.retired = @ \cup ({req[r].tid} \ {None})]
    /\ UNCHANGED <<threads, nextThreadId, messages, runs, started, subscription>>

(******************************* run driver *********************************)
\* str.index / str.rindex as 0-based positions; Absent stands for ValueError.
Absent == 0 - 1

Positions(text, ch) == {i \in 1..Len(text) : text[i] = ch}

Minimum(S) == CHOOSE x \in S : \A y \in S : x <= y
Maximum(S) == CHOOSE x \in S : \A y \in S : x >= y

\* `assistant_message_content.index('{')`
Index(text, ch) ==
    IF Positions(text, ch) = {} THEN Absent ELSE Minimum(Positions(text, ch)) - 1

\* Mutant: the closing brace is searched from the left.
RIndexFirst(text, ch) ==
    IF Positions(text, ch) = {} THEN Absent ELSE Minimum(Positions(text, ch)) - 1

\* `assistant_message_content.rindex('}')`
RIndex(text, ch) ==
    IF Positions(text, ch) = {} THEN Absent ELSE Maximum(Positions(text, ch)) - 1

\* Python's text[start:end] for 0 <= start, 0 <= end: empty when end <= start.
Slice(text, start, end) == SubSeq(text, start + 1, end)

Filler == [kind |-> "filler", text |-> <<" ">>]
\* `yield json.dumps({"error": ...})`
ErrorUnit(msg) == [kind |-> "error", text |-> msg]

\* STEP 5 of generate_structured_response: the unit yielded for the reply text.
ExtractUnit(assistant_message_content) ==
    LET start_index == Index(assistant_message_content, "{")
        last == RIndex(assistant_message_content, "}")
        end_index == last + 1
    IN  IF start_index = Absent \/ last = Absent
        THEN ErrorUnit(<<"Failed to extract valid JSON from response.">>)
        ELSE [kind |-> "json",
              text |-> Slice(assistant_message_content, start_index, end_index)]

\* The generator yields its last unit and is exhausted: the stream ends and
\* the thread is free again.  q holds the generator's locals at that point.
Finish(r, q, unit) ==
    /\ req' = [req EXCEPT ![r] = Idle]
    /\ response' = [Answer("ask", HTTP_OK, None, req[r].pc) EXCEPT
                        !.out = Append(q.out, unit), !.polls = q.polls]

\* Mutant: the exception leaves the driver and ask answers 500.
DriverRaisePropagates(r, at) == Return(r, HTTP_SERVER_ERROR, None)

\* Mutant: the except clause ends the stream without yielding anything.
DriverRaiseSilent(r, at) ==
    /\ req' = [req EXCEPT ![r] = Idle]
    /\ response' = [Answer("ask", HTTP_OK, None, req[r].pc) EXCEPT
                        !.out = req[r].out, !.polls = req[r].polls]

\* `except Exception as e: yield json.dumps({"error": f"An error occurred: ..."})`
DriverRaise(r, at) ==
    Finish(r, req[r], ErrorUnit(<<"An error occurred: ", at>>))

\* Mutant: a run that ended without completing is submitted again.
AfterStatusRetry(r, q, status) ==
    IF status \in PollingStatuses THEN Proceed(r, q, "drv_poll")
    ELSE IF status = "completed" THEN Proceed(r, q, "drv_list")
    ELSE Proceed(r, q, "drv_run")

\* Mutant: the loop also goes on while the run is reported failed.
AfterStatusKeepsPolling(r, q, status) ==
    IF status \in PollingStatuses \cup {"failed"} THEN Proceed(r, q, "drv_poll")
    ELSE IF status = "completed" THEN Proceed(r, q, "drv_list")
    ELSE Finish(r, q, ErrorUnit(<<"Run failed with status: ", status>>))

\* The code after a status is in hand: loop again, read the reply, or report.
AfterStatus(r, q, status) ==
    IF status \in PollingStatuses THEN Proceed(r, q, "drv_poll")
    ELSE IF status = "completed" THEN Proceed(r, q, "drv_list")
    ELSE Finish(r, q, ErrorUnit(<<"Run failed with status: ", status>>))

\* The engine lists a conversation newest first; the model keeps the page head.
Push(msgs, m) == SubSeq(<<m>> \o msgs, 1, IF Len(msgs) + 1 < PageSize THEN Len(msgs) + 1 ELSE PageSize)

\* Mutant: when the submission fails the driver writes the counter back.
DrvMessageRefunds(r) ==
    /\ req[r].pc = "drv_msg"
    /\ \/ /\ DriverRaise(r, "messages.create")
          /\ userRecord' = StorePut(userRecord, [dailyQuestionCount |-> req[r].daily_count])
          /\ UNCHANGED messages
       \/ /\ req[r].thread_id \in threads
          /\ messages' = [messages EXCEPT ![req[r].thread_id] =
                Push(@, [role |-> "user", prompt |-> req[r].prompt, text |-> <<"q">>])]
          /\ Proceed(r, req[r], "drv_run")
          /\ UNCHANGED userRecord
    /\ UNCHANGED <<threads, nextThreadId, runs, started, hist, subscription>>

\* STEP 1: messages.create(thread_id, role="user", content=user_prompt)
DrvMessage(r) ==
    /\ req[r].pc = "drv_msg"
    /\ \/ /\ DriverRaise(r, "messages.create")
          /\ UNCHANGED messages
       \/ /\ req[r].thread_id \in threads
          /\ messages' = [messages EXCEPT ![req[r].thread_id] =
                Push(@, [role |-> "user", prompt |-> req[r].prompt, text |-> <<"q">>])]
          /\ Proceed(r, req[r], "drv_run")
    /\ UNCHANGED <<userRecord, threads, nextThreadId, runs, started, hist, subscription>>

\* STEP 2: runs.create(thread_id, assistant_id); a new run is queued.
DrvRun(r) ==
    /\ req[r].pc = "drv_run"
    /\ \/ /\ DriverRaise(r, "runs.create")
          /\ UNCHANGED runs
       \/ /\ req[r].thread_id \in threads
          /\ Len(runs) < MaxRuns
          /\ runs' = Append(runs, [thread |-> req[r].thread_id, status |-> "queued",
                                   prompt |-> req[r].prompt])
          /\ AfterStatus(r, [req[r] EXCEPT !.run = Len(runs) + 1], "queued")
    /\ UNCHANGED <<userRecord, threads, nextThreadId, messages, started, hist, subscription>>

\* Mutant: the filler is yielded only while the status just fetched is one
\* the loop goes on with.
DrvPollFillerWhilePending(r) ==
    /\ req[r].pc = "drv_poll"
    /\ \/ DriverRaise(r, "runs.retrieve")
       \/ /\ req[r].thread_id \in threads
          /\ req[r].polls < MaxPolls
          /\ LET status == runs[req[r].run].status IN
             AfterStatus(r, [req[r] EXCEPT !.polls = @ + 1,
                                !.out = IF status \in PollingStatuses
                                        THEN Append(@, Filler) ELSE @], status)
    /\ UNCHANGED <<userRecord, threads, nextThreadId, messages, runs, started, hist, subscription>>

\* Mutant: the driver gives up when the first re-fetch finds the run pending.
DrvPollGivesUp(r) ==
    /\ req[r].pc = "drv_poll"
    /\ \/ DriverRaise(r, "runs.retrieve")
       \/ /\ req[r].thread_id \in threads
          /\ req[r].polls < MaxPolls
          /\ LET status == runs[req[r].run].status
                 q == [req[r] EXCEPT !.polls = @ + 1, !.out = Append(@, Filler)]
             IN  IF status \in PollingStatuses
                 THEN Finish(r, q, ErrorUnit(<<"Run failed with status: ", "timeout">>))
                 ELSE AfterStatus(r, q, status)
    /\ UNCHANGED <<userRecord, threads, nextThreadId, messages, runs, started, hist,
                   subscription>>

\* STEP 3, one turn of the loop: sleep, runs.retrieve, yield ' '.
DrvPoll(r) ==
    /\ req[r].pc = "drv_poll"
    /\ \/ DriverRaise(r, "runs.retrieve")
       \/ /\ req[r].thread_id \in threads
          /\ req[r].polls < MaxPolls
          /\ AfterStatus(r, [req[r] EXCEPT !.polls = @ + 1, !.out = Append(@, Filler)],
                         runs[req[r].run].status)
    /\ UNCHANGED <<userRecord, threads, nextThreadId, messages, runs, started, hist, subscription>>

\* STEP 4 and 5: messages.list, take the newest message, extract.
DrvList(r) ==
    /\ req[r].pc = "drv_list"
    /\ \/ DriverRaise(r, "messages.list")
       \/ /\ req[r].thread_id \in threads
          /\ LET data == messages[req[r].thread_id] IN
             IF data = <<>> THEN DriverRaise(r, "IndexError")
             ELSE Finish(r, req[r], ExtractUnit(data[1].text))
    /\ UNCHANGED <<userRecord, threads, nextThreadId, messages, runs, started, hist, subscription>>

(********************************* ask **************************************)
\* Mutant: the comparison lets a counter equal to the limit through.
LimitReachedOffByOne(daily_count) == daily_count > DailyLimit

\* `if daily_count >= 100`
LimitReached(daily_count) == daily_count >= DailyLimit

\* Mutant: an authorized request is charged twice.
NewCountByTwo(daily_count) == daily_count + 2

\* `new_count = daily_count + 1`
NewCount(daily_count) == daily_count + 1

\* `update_payload = {'dailyQuestionCount': new_count}`
AskUpdatePayload(new_count) == [dailyQuestionCount |-> new_count]

\* `except Exception as e: ... return jsonify({'error': 'Internal server error'}), 500`
AskRaise(r) == Return(r, HTTP_SERVER_ERROR, None)

\* Mutant: the body is validated before the credential is looked at.
AskArrivesFieldsFirst(r, user_token, data, prompt, thread_id, hasObjectId) ==
    IF ~data THEN Reject(r, "ask", HTTP_BAD_REQUEST)
    ELSE IF prompt = None \/ thread_id = None \/ ~hasObjectId
         THEN Reject(r, "ask", HTTP_BAD_REQUEST)
    ELSE IF ~user_token THEN Reject(r, "ask", HTTP_UNAUTHORIZED)
    ELSE Proceed(r, [Arrive("ask") EXCEPT !.thread_id = thread_id,
                                          !.prompt = prompt], "ask_get")

\* Mutant: thread_id is not among the fields that are required.
AskArrivesThreadOptional(r, user_token, data, prompt, thread_id, hasObjectId) ==
    IF ~user_token THEN Reject(r, "ask", HTTP_UNAUTHORIZED)
    ELSE IF ~data THEN Reject(r, "ask", HTTP_BAD_REQUEST)
    ELSE IF prompt = None \/ ~hasObjectId
         THEN Reject(r, "ask", HTTP_BAD_REQUEST)
    ELSE Proceed(r, [Arrive("ask") EXCEPT !.thread_id = thread_id,
                                          !.prompt = prompt], "ask_get")

\* ask on a request with or without the user-token header, with or without a
\* JSON body, and with each field given or missing (None): credential, body,
\* fields, in that order.
AskArrives(r, user_token, data, prompt, thread_id, hasObjectId) ==
    IF ~user_token THEN Reject(r, "ask", HTTP_UNAUTHORIZED)
    ELSE IF ~data THEN Reject(r, "ask", HTTP_BAD_REQUEST)
    ELSE IF prompt = None \/ thread_id = None \/ ~hasObjectId
         THEN Reject(r, "ask", HTTP_BAD_REQUEST)
    ELSE Proceed(r, [Arrive("ask") EXCEPT !.thread_id = thread_id,
                                          !.prompt = prompt], "ask_get")

\* ask up to the first call of the record store; the prompt of the n-th
\* request is n.
AskBegin(r) ==
    /\ Takes(r)
    /\ started < MaxRequests
    /\ started' = started + 1
    /\ \E user_token \in BOOLEAN, data \in BOOLEAN, hasPrompt \in BOOLEAN,
          thread_id \in {None} \cup ThreadIds, hasObjectId \in BOOLEAN :
          AskArrives(r, user_token, data, IF hasPrompt THEN started + 1 ELSE None,
                     thread_id, hasObjectId)
    /\ UNCHANGED <<userRecord, threads, nextThreadId, messages, runs, hist, subscription>>

\* STEP 6 and 7: read the counter and compare it with the limit.
AskGet(r) ==
    /\ req[r].pc = "ask_get"
    /\ \/ AskRaise(r)
       \/ LET daily_count == Get(userRecord, "dailyQuestionCount", 0) IN
          IF LimitReached(daily_count)
          THEN Return(r, HTTP_TOO_MANY, None)
          ELSE Proceed(r, [req[r] EXCEPT !.daily_count = daily_count], "ask_put")
    /\ UNCHANGED <<userRecord, threads, nextThreadId, messages, runs, started, hist, subscription>>

\* Mutant: a failed write of the counter is ignored and the prompt goes out.
AskPutIgnoringFailure(r) ==
    /\ req[r].pc = "ask_put"
    /\ \/ /\ Proceed(r, req[r], "drv_msg")
          /\ UNCHANGED <<userRecord, hist>>
       \/ /\ userRecord' =
                StorePut(userRecord, AskUpdatePayload(NewCount(req[r].daily_count)))
          /\ Proceed(r, req[r], "drv_msg")
          /\ hist' = [hist EXCEPT !.authorized = @ + 1]
    /\ UNCHANGED <<threads, nextThreadId, messages, runs, started, subscription>>

\* STEP 8 and 9: write the incremented counter, then hand the generator to the
\* streamed Response (status 200); the generator's body runs in the next steps.
AskPut(r) ==
    /\ req[r].pc = "ask_put"
    /\ \/ /\ AskRaise(r)
          /\ UNCHANGED <<userRecord, hist>>
       \/ /\ userRecord' =
                StorePut(userRecord, AskUpdatePayload(NewCount(req[r].daily_count)))
          /\ Proceed(r, req[r], "drv_msg")
          /\ hist' = [hist EXCEPT !.authorized = @ + 1]
    /\ UNCHANGED <<threads, nextThreadId, messages, runs, started, subscription>>

(****************************** ask_google **********************************)
\* The text a chunk of generate_content_stream may carry; NoParts is a chunk
\* without candidates, content or parts.
Fragments == {"a", "b"}
NoParts == ""
Chunks == Fragments \cup {NoParts}

\* The generator is exhausted: the streamed response of ask_google is complete.
GoogleFinish(r, out) ==
    /\ req' = [req EXCEPT ![r] = Idle]
    /\ response' = [Answer("ask_google", HTTP_OK, None, req[r].pc) EXCEPT
                        !.out = out, !.feed = req[r].feed]

\* ask_google on a request with or without prompt in its body.
AskGoogleArrives(r, hasPrompt) ==
    IF ~hasPrompt THEN Reject(r, "ask_google", HTTP_BAD_REQUEST)
    ELSE Proceed(r, Arrive("ask_google"), "ggl_next")

\* ask_google up to the streamed Response around generate_google_ai_response.
AskGoogleBegin(r) ==
    /\ Takes(r)
    /\ started < MaxRequests
    /\ started' = started + 1
    /\ \E hasPrompt \in BOOLEAN : AskGoogleArrives(r, hasPrompt)
    /\ UNCHANGED <<userRecord, threads, nextThreadId, messages, runs, hist, subscription>>

\* One turn of `for chunk in client.models.generate_content_stream(...)`: the
\* feed raises (so does the set-up of the client before the first chunk), it
\* hands over the next chunk, which is skipped or printed with
\* `print(chunk.text, end="")`, or it is exhausted and the generator returns.
GoogleNextChunk(r) ==
    /\ req[r].pc = "ggl_next"
    /\ \/ GoogleFinish(r, Append(req[r].out,
                ErrorUnit(<<"An error occurred: ", "generate_content_stream">>)))
       \/ /\ Len(req[r].feed) < MaxChunks
          /\ \E chunk \in Chunks :
                Proceed(r, [req[r] EXCEPT !.feed = Append(@, chunk)], "ggl_next")
       \/ GoogleFinish(r, req[r].out)
    /\ UNCHANGED <<userRecord, threads, nextThreadId, messages, runs, started, hist,
                   subscription>>

GoogleNext == \E r \in Procs : AskGoogleBegin(r) \/ GoogleNextChunk(r)

(************************* payment handlers *********************************)
\* `update_payload = {'status': 'active', 'stripeSubscriptionId': subscription_id}`
ActivatePayload(subscription_id) ==
    [status |-> "active", stripeSubscriptionId |-> subscription_id]

\* Mutant: the payment status of the session is not looked at.
PaymentSuccessfulStatusOnly(session) == session.status = "complete"

\* `if session.status != 'complete' or session.payment_status != 'paid'`, negated
PaymentSuccessful(session) ==
    session.status = "complete" /\ session.payment_status = "paid"

\* `if not client_reference_id or not subscription_id`, negated
HasIdentifiers(session) ==
    session.client_reference_id # None /\ session.subscription # None

\* verify_payment_session on a request with or without a body and session_id.
VerifyArrives(r, data, hasSessionId) ==
    IF ~data THEN Reject(r, "verify_payment_session", HTTP_BAD_REQUEST)
    ELSE IF ~hasSessionId THEN Reject(r, "verify_payment_session", HTTP_BAD_REQUEST)
    ELSE Proceed(r, Arrive("verify_payment_session"), "vps_retrieve")

VerifyBegin(r) ==
    /\ Takes(r)
    /\ started < MaxRequests
    /\ started' = started + 1
    /\ \E data \in BOOLEAN, hasSessionId \in BOOLEAN : VerifyArrives(r, data, hasSessionId)
    /\ UNCHANGED <<userRecord, threads, nextThreadId, messages, runs, hist, subscription>>

\* `except Exception as e: return jsonify({'error': f'Server error: ...'}), 500`
VerifyRaise(r) == Return(r, HTTP_SERVER_ERROR, None)

\* The code between Session.retrieve and the query, on the session retrieved.
VerifySession(r, session) ==
    IF ~PaymentSuccessful(session) THEN Return(r, HTTP_BAD_REQUEST, None)
    ELSE IF ~HasIdentifiers(session) THEN Return(r, HTTP_BAD_REQUEST, None)
    ELSE Proceed(r, [req[r] EXCEPT !.session = session], "vps_query")

\* STEP 3 to 5: stripe.checkout.Session.retrieve and the checks on its result.
VerifyRetrieve(r) ==
    /\ req[r].pc = "vps_retrieve"
    /\ \/ VerifyRaise(r)
       \/ \E session \in Sessions : VerifySession(r, session)
    /\ UNCHANGED <<userRecord, threads, nextThreadId, messages, runs, started, hist,
                   subscription>>

\* STEP 6: query the Subscriptions table for the user's row.
VerifyQuery(r) ==
    /\ req[r].pc = "vps_query"
    /\ \/ VerifyRaise(r)
       \/ LET subscriptions == subscription IN
          IF subscriptions = NoRow THEN Return(r, HTTP_NOT_FOUND, None)
          ELSE Proceed(r, req[r], "vps_put")
    /\ UNCHANGED <<userRecord, threads, nextThreadId, messages, runs, started, hist,
                   subscription>>

\* STEP 7 and 8: write the activation and answer 200.
VerifyPut(r) ==
    /\ req[r].pc = "vps_put"
    /\ \/ /\ VerifyRaise(r)
          /\ UNCHANGED subscription
       \/ /\ subscription # NoRow
          /\ subscription' =
                StorePut(subscription, ActivatePayload(req[r].session.subscription))
          /\ Return(r, HTTP_OK, None)
    /\ UNCHANGED <<userRecord, threads, nextThreadId, messages, runs, started, hist>>

\* The event types the processor sends; the handler acts on the first only.
EventTypes == {"checkout.session.completed", "invoice.paid"}

\* Mutant: a failed update of the subscription is reported to the processor.
WebhookRaiseReported(r) == Return(r, HTTP_SERVER_ERROR, None)

\* `except Exception as e: ... return jsonify({'status': 'success'}), 200`
WebhookRaise(r) == Return(r, HTTP_OK, None)

\* stripe_webhook up to its first remote call: signature header, signature
\* check (construct_event, a local computation), event type, identifiers.
WebhookArrives(r, sig_header, verified, type, session) ==
    IF ~sig_header THEN Reject(r, "stripe_webhook", HTTP_BAD_REQUEST)
    ELSE IF ~verified THEN Reject(r, "stripe_webhook", HTTP_BAD_REQUEST)
    ELSE IF type = "checkout.session.completed"
         THEN IF ~HasIdentifiers(session) THEN Reject(r, "stripe_webhook", HTTP_OK)
              ELSE Proceed(r, [Arrive("stripe_webhook") EXCEPT !.session = session],
                           "wh_query")
    ELSE Reject(r, "stripe_webhook", HTTP_OK)

WebhookBegin(r) ==
    /\ Takes(r)
    /\ started < MaxRequests
    /\ started' = started + 1
    /\ \E sig_header \in BOOLEAN, verified \in BOOLEAN, type \in EventTypes,
          session \in Sessions : WebhookArrives(r, sig_header, verified, type, session)
    /\ UNCHANGED <<userRecord, threads, nextThreadId, messages, runs, hist, subscription>>

\* Webhook STEP 5: query the Subscriptions table for the user's row.
WebhookQuery(r) ==
    /\ req[r].pc = "wh_query"
    /\ \/ WebhookRaise(r)
       \/ LET subscriptions == subscription IN
          IF subscriptions = NoRow THEN Return(r, HTTP_OK, None)
          ELSE Proceed(r, req[r], "wh_put")
    /\ UNCHANGED <<userRecord, threads, nextThreadId, messages, runs, started, hist,
                   subscription>>

\* Webhook STEP 6: write the activation; 200 follows in every case.
WebhookPut(r) ==
    /\ req[r].pc = "wh_put"
    /\ \/ /\ WebhookRaise(r)
          /\ UNCHANGED subscription
       \/ /\ subscription # NoRow
          /\ subscription' =
                StorePut(subscription, ActivatePayload(req[r].session.subscription))
          /\ Return(r, HTTP_OK, None)
    /\ UNCHANGED <<userRecord, threads, nextThreadId, messages, runs, started, hist>>

Verify(r) == VerifyBegin(r) \/ VerifyRetrieve(r) \/ VerifyQuery(r) \/ VerifyPut(r)
Webhook(r) == WebhookBegin(r) \/ WebhookQuery(r) \/ WebhookPut(r)

PaymentNext == \E r \in Procs : Verify(r) \/ Webhook(r)

(***************************** remote engine ********************************)
\* The replies the assistant may produce, as character sequences.
ReplyTexts == { <<"{", "a", "}">>, <<"x">>, <<"}", "{">> }

\* The run lifecycle, advanced by the engine alone.
RunSuccessors(status) ==
    CASE status = "queued" -> {"in_progress"}
      [] status = "in_progress" -> {"completed", "failed", "cancelling", "expired"}
      [] status = "cancelling" -> {"cancelled"}
      [] OTHER -> {}

EngineAdvance ==
    /\ \E id \in 1..Len(runs) : \E next \in RunSuccessors(runs[id].status) :
          /\ runs' = [runs EXCEPT ![id].status = next]
          /\ IF next = "completed"
             THEN \E text \in ReplyTexts :
                    messages' = [messages EXCEPT ![runs[id].thread] =
                       Push(@, [role |-> "assistant", prompt |-> runs[id].prompt,
                                text |-> text])]
             ELSE UNCHANGED messages
    /\ UNCHANGED <<userRecord, threads, nextThreadId, req, started, response, hist, subscription>>

(***************************** specification ********************************)
\* The user record as a request may find it: the handle absent, cleared or
\* naming an existing conversation; the counter absent or near the limit.
InitialRecords ==
    { StorePut(h, c) :
        h \in {NoFields, [currentThreadId |-> None], [currentThreadId |-> 1]},
        c \in {NoFields} \cup
              { [dailyQuestionCount |-> n] : n \in {DailyLimit - 1, DailyLimit} } }

Init ==
    /\ userRecord \in InitialRecords
    /\ threads = IF Handle = None THEN {} ELSE {Handle}
    /\ nextThreadId = IF Handle = None THEN 1 ELSE Handle + 1
    /\ messages = [t \in ThreadIds |-> <<>>]
    /\ runs = <<>>
    /\ req = [r \in Procs |-> Idle]
    /\ started = 0
    /\ response = NoResponse
    /\ hist = [c0 |-> Get(userRecord, "dailyQuestionCount", 0),
               h0 |-> Get(userRecord, "currentThreadId", None),
               authorized |-> 0, retired |-> {}]
    /\ subscription = InactiveRow

Begin(r) == StartChatBegin(r) \/ AskBegin(r) \/ ResetBegin(r)

Registry(r) ==
    \/ GocGet(r) \/ GocCreate(r) \/ GocPut(r)
    \/ ResetGet(r) \/ ResetDelete(r) \/ ResetPut(r)

Gate(r) == AskGet(r) \/ AskPut(r)

Driver(r) == DrvMessage(r) \/ DrvRun(r) \/ DrvPoll(r) \/ DrvList(r)

Next ==
    \/ \E r \in Procs : Begin(r)
    \/ \E r \in Procs : Registry(r) \/ Gate(r) \/ Driver(r)
    \/ EngineAdvance

Spec == Init /\ [][Next]_vars

\* The handlers under a fair schedule: the engine goes on with a run that has
\* not ended, and a generator that can take a turn of its loop or read the
\* reply does so (time.sleep returns and the server keeps iterating the
\* stream).
LiveSpec ==
    /\ Init /\ [][Next]_vars
    /\ WF_vars(EngineAdvance)
    /\ \A r \in Procs : WF_vars(DrvPoll(r)) /\ WF_vars(DrvList(r))

\* The same handlers with requests served one at a time: a request is taken
\* only when no other is in flight.
SeqNext ==
    \/ \E r \in Procs : Quiet /\ Begin(r)
    \/ \E r \in Procs : Registry(r) \/ Gate(r) \/ Driver(r)
    \/ EngineAdvance

SeqSpec == Init /\ [][SeqNext]_vars

\* The extraction on its own.  A reply text is a sequence of characters; the
\* code tells apart '{', '}' and every other character, for which the letter
\* stands (it is neither a brace nor a quote).
Alphabet == {"{", "}", "a"}
Texts == UNION { [1..n -> Alphabet] : n \in 0..MaxLen }

\* An ask whose run has completed after one re-fetch and whose generator is
\* about to list the messages; the newest message is the assistant's reply.
Extracting ==
    [Arrive("ask") EXCEPT !.pc = "drv_list", !.thread_id = 1, !.prompt = 1,
                          !.run = 1, !.polls = 1, !.out = <<Filler>>]

ExtractInit ==
    /\ userRecord = [currentThreadId |-> 1, dailyQuestionCount |-> 1]
    /\ threads = {1}
    /\ nextThreadId = 2
    /\ \E text \in Texts :
          messages = [t \in ThreadIds |->
             IF t = 1 THEN <<[role |-> "assistant", prompt |-> 1, text |-> text]>>
             ELSE <<>>]
    /\ runs = <<[thread |-> 1, status |-> "completed", prompt |-> 1]>>
    /\ req = [r \in Procs |-> IF r = 1 THEN Extracting ELSE Idle]
    /\ started = 1
    /\ response = NoResponse
    /\ hist = [c0 |-> 0, h0 |-> 1, authorized |-> 1, retired |-> {}]
    /\ subscription = InactiveRow

ExtractNext == \E r \in Procs : DrvList(r)

ExtractSpec == ExtractInit /\ [][ExtractNext]_vars

\* The payment handlers on their own: they share no state with the other
\* handlers; the user has a row in the Subscriptions table or has none.
PaymentInit ==
    /\ userRecord = NoFields
    /\ threads = {}
    /\ nextThreadId = 1
    /\ messages = [t \in ThreadIds |-> <<>>]
    /\ runs = <<>>
    /\ req = [r \in Procs |-> Idle]
    /\ started = 0
    /\ response = NoResponse
    /\ hist = [c0 |-> 0, h0 |-> None, authorized |-> 0, retired |-> {}]
    /\ subscription \in {NoRow, InactiveRow}

PaymentSpec == PaymentInit /\ [][PaymentNext]_vars

\* ask_google on its own: it shares no state with the other handlers.
GoogleSpec == Init /\ [][GoogleNext]_vars

(******************************** claims ************************************)
\* Request r takes the step it has at position pc.
Steps(r, pc) == req[r].pc = pc /\ req'[r] # req[r]
\* Request r returns from position pc: its response is response'.
Returns(r, pc) == req[r].pc = pc /\ req'[r] = Idle
\* The engine's conversations, messages and runs are as they were.
EngineUnchanged == UNCHANGED <<threads, nextThreadId, messages, runs>>

\* C1: with requests served one at a time and a counter that starts at
\* limit-1, at most one ask is ever authorized; the counter is limit-1 until
\* then and limit from then on; an ask that reads limit-1 is never answered
\* 429 and its write stores limit; an ask that reads limit is answered 429
\* (or 500 when the read itself fails) and leaves the counter at limit.
C1_QuotaBoundary ==
    /\ [](hist.c0 = DailyLimit - 1 =>
            /\ hist.authorized <= 1
            /\ Counter = DailyLimit - 1 + hist.authorized)
    /\ [][\A r \in Procs : hist.c0 = DailyLimit - 1 =>
            /\ Steps(r, "ask_get") /\ Counter = DailyLimit - 1 =>
                  \/ req'[r].pc = "ask_put"
                  \/ Returns(r, "ask_get") /\ response'.status = HTTP_SERVER_ERROR
            /\ Steps(r, "ask_put") /\ req'[r].pc = "drv_msg" =>
                  Counter' = DailyLimit /\ hist'.authorized = 1
            /\ Steps(r, "ask_get") /\ Counter = DailyLimit =>
                  /\ Returns(r, "ask_get")
                  /\ response'.status \in {HTTP_TOO_MANY, HTTP_SERVER_ERROR}
                  /\ Counter' = DailyLimit]_vars

\* C1 witness: from limit-1 one ask was authorized and a later one was
\* answered 429 with the counter at the limit.
C1_Witness ==
    /\ hist.c0 = DailyLimit - 1
    /\ hist.authorized = 1
    /\ response.op = "ask" /\ response.status = HTTP_TOO_MANY
    /\ Counter = DailyLimit

\* C2: an ask that reads a counter at or above the limit returns at once with
\* 429 (500 only when the read fails), and that step writes nothing to the
\* user record and submits nothing to the engine.
C2_RejectionChangesNothing ==
    [][\A r \in Procs : Steps(r, "ask_get") /\ Counter >= DailyLimit =>
          /\ Returns(r, "ask_get")
          /\ response'.op = "ask"
          /\ response'.status \in {HTTP_TOO_MANY, HTTP_SERVER_ERROR}
          /\ response'.out = <<>>
          /\ UNCHANGED userRecord
          /\ EngineUnchanged]_vars

\* C2 witness: a user at the limit was answered 429; the counter is still at
\* the limit and the engine holds no message and no run.
C2_Witness ==
    /\ hist.c0 = DailyLimit
    /\ response.op = "ask" /\ response.status = HTTP_TOO_MANY
    /\ Counter = DailyLimit
    /\ runs = <<>>
    /\ \A t \in ThreadIds : messages[t] = <<>>

\* C3: the stored counter never exceeds the limit, and the counter is written
\* only by the write step of an ask that read a value below the limit, which
\* stores that value plus one.
C3_CounterNeverAboveLimit ==
    /\ [](hist.c0 <= DailyLimit => Counter <= DailyLimit)
    /\ [][/\ Get(userRecord', "dailyQuestionCount", None) #
               Get(userRecord, "dailyQuestionCount", None) =>
                \E r \in Procs : Steps(r, "ask_put") /\ req'[r].pc = "drv_msg"
          /\ \A r \in Procs : Steps(r, "ask_put") /\ req'[r].pc = "drv_msg" =>
                /\ req[r].daily_count < DailyLimit
                /\ Counter' = req[r].daily_count + 1]_vars

\* C3 witness: two asks raced from limit-1, both were authorized, and the
\* counter stands at the limit.
C3_Witness ==
    /\ hist.c0 = DailyLimit - 1
    /\ hist.authorized = 2
    /\ Counter = DailyLimit

\* Asks that have passed the check and not yet written.
PassedNotWritten == {r \in Procs : req[r].pc = "ask_put"}

\* C4: from a counter of limit-1 the asks authorized so far plus the asks that
\* have passed the check never outnumber the requests that can be in flight
\* together (NumProcs): N racing asks give at most N-1 authorizations beyond
\* the one that remained.
C4_RaceBound ==
    hist.c0 = DailyLimit - 1 =>
        hist.authorized + Cardinality(PassedNotWritten) <= NumProcs

\* C4 witness: every request that could race has passed the check on the
\* same last unit of quota, and then all of them were authorized.
C4_Witness ==
    /\ hist.c0 = DailyLimit - 1
    /\ hist.authorized = NumProcs
    /\ NumProcs > 1
    /\ started > NumProcs

\* C5: with requests served one at a time, a start_chat that finds a handle
\* returns it and allocates and writes nothing; one that finds none allocates
\* exactly one conversation (the newest), records it and returns it; an
\* allocation happens only while no handle is recorded; and a recorded
\* handle changes only by the write step of a reset.
C5_OneHandleUntilReset ==
    [][/\ \A r \in Procs :
            /\ Returns(r, "goc_get") /\ response'.status = HTTP_OK =>
                  /\ Handle # None /\ response'.body = Handle
                  /\ UNCHANGED userRecord /\ EngineUnchanged
            /\ Steps(r, "goc_get") /\ Handle # None => Returns(r, "goc_get")
            /\ Steps(r, "goc_create") => Handle = None
            /\ Returns(r, "goc_put") /\ response'.status = HTTP_OK =>
                  /\ Handle = None
                  /\ Handle' = response'.body
                  /\ response'.body = req[r].tid
                  /\ req[r].tid = nextThreadId - 1
                  /\ req[r].tid \in threads
       /\ nextThreadId' # nextThreadId =>
            \E r \in Procs : Steps(r, "goc_create") /\ nextThreadId' = nextThreadId + 1
       /\ Handle # None /\ Handle' # Handle =>
            \E r \in Procs : Returns(r, "rst_put")]_vars

\* C5 witness: the user started without a handle, exactly one conversation
\* was ever allocated, and a later start_chat found and returned it.
C5_Witness ==
    /\ hist.h0 = None
    /\ nextThreadId = 2
    /\ Handle = 1
    /\ response = Answer("start_chat", HTTP_OK, 1, "goc_get")

\* C6 (as claimed): a conversation is allocated only while the user record
\* carries no handle.
C6_NoSecondHandle ==
    [][nextThreadId' # nextThreadId => Handle = None]_vars

\* C7: a start_chat whose fetch finds a non-empty handle returns at that step
\* with exactly that handle (500 only when the fetch fails), and neither the
\* record store nor the engine changes.
C7_ExistingHandleReturned ==
    [][\A r \in Procs : Steps(r, "goc_get") /\ Handle # None =>
          /\ Returns(r, "goc_get")
          /\ \/ response' = Answer("start_chat", HTTP_OK, Handle, "goc_get")
             \/ response' = Answer("start_chat", HTTP_SERVER_ERROR, None, "goc_get")
          /\ UNCHANGED userRecord
          /\ EngineUnchanged]_vars

\* C7 witness: the handle the user started with was returned and nothing was
\* allocated or written.
C7_Witness ==
    /\ hist.h0 # None
    /\ response = Answer("start_chat", HTTP_OK, hist.h0, "goc_get")
    /\ Handle = hist.h0
    /\ nextThreadId = hist.h0 + 1
    /\ threads = {hist.h0}

\* C8: the handle a start_chat returns is never one that a completed reset
\* had found on the record, and the record never carries such a handle again.
C8_FreshHandleAfterReset ==
    /\ [](Handle \notin hist.retired)
    /\ [][\A r \in Procs :
            (Returns(r, "goc_get") \/ Returns(r, "goc_put")) /\ response'.status = HTTP_OK =>
                response'.body \notin hist'.retired]_vars

\* C8 witness: the user's first handle was reset and the start_chat after it
\* created and returned another one.
C8_Witness ==
    /\ hist.h0 = 1
    /\ hist.retired = {1}
    /\ response = Answer("start_chat", HTTP_OK, 2, "goc_put")
    /\ Handle = 2

\* C9 (as claimed): when the engine fails the deletion because the
\* conversation does not exist, reset still goes on to clear the field.
C9_ClearsDespiteMissingHandle ==
    [][\A r \in Procs : Steps(r, "rst_delete") /\ req[r].tid \notin threads =>
          req'[r].pc = "rst_put"]_vars

\* C9 (amended): reset goes on to clear the field only when the deletion
\* succeeded; when the engine fails it, as it does for a conversation that
\* does not exist, reset returns 500 at that step and writes nothing; and the
\* write step that succeeds clears the field and answers 200.
C9_DeleteFailureEndsReset ==
    [][\A r \in Procs :
          /\ Steps(r, "rst_delete") =>
                \/ /\ req'[r].pc = "rst_put"
                   /\ req[r].tid \in threads
                   /\ threads' = threads \ {req[r].tid}
                   /\ UNCHANGED userRecord
                \/ /\ Returns(r, "rst_delete")
                   /\ response' = Answer("reset_thread", HTTP_SERVER_ERROR, None, "rst_delete")
                   /\ UNCHANGED <<userRecord, threads>>
          /\ Steps(r, "rst_delete") /\ req[r].tid \notin threads => Returns(r, "rst_delete")
          /\ Returns(r, "rst_put") /\ response'.status = HTTP_OK => Handle' = None]_vars

\* C9 witness: a reset ended with 500 at the deletion of a conversation that
\* no longer exists, and the record still carries that handle.
C9_Witness ==
    /\ response = Answer("reset_thread", HTTP_SERVER_ERROR, None, "rst_delete")
    /\ Handle # None
    /\ Handle \notin threads

\* C10: with requests served one at a time, when the write-back of a newly
\* allocated handle fails (start_chat returns from the write step and the
\* record does not name the new handle), start_chat answers 500 without a handle, the record
\* still carries no handle, the new conversation stays allocated and
\* unreferenced, and a later start_chat that finds no handle goes on to
\* allocate a conversation with a new id.
C10_LeakOnFailedWriteBack ==
    [][\A r \in Procs :
          /\ Returns(r, "goc_put") /\ Handle' # req[r].tid =>
                /\ response' = Answer("start_chat", HTTP_SERVER_ERROR, None, "goc_put")
                /\ UNCHANGED userRecord
                /\ Handle' = None
                /\ req[r].tid \in threads'
          /\ Steps(r, "goc_get") /\ Handle = None =>
                \/ req'[r].pc = "goc_create"
                \/ Returns(r, "goc_get") /\ response'.status = HTTP_SERVER_ERROR
          /\ Steps(r, "goc_create") /\ req'[r].pc = "goc_put" =>
                /\ req'[r].tid \notin threads
                /\ req'[r].tid >= nextThreadId
                /\ req'[r].tid \in threads']_vars

\* C10 witness: the first allocation was leaked (it exists and the record
\* never named it) and a later start_chat allocated and recorded another.
C10_Witness ==
    /\ hist.h0 = None
    /\ hist.retired = {}
    /\ threads = {1, 2}
    /\ Handle = 2
    /\ response = Answer("start_chat", HTTP_OK, 2, "goc_put")

\* The positions of the run driver, in the order the generator passes them.
DriverPcs == {"drv_msg", "drv_run", "drv_poll", "drv_list"}
DriverRank(pc) ==
    CASE pc = "drv_msg" -> 1 [] pc = "drv_run" -> 2 [] pc = "drv_poll" -> 3
      [] pc = "drv_list" -> 4 [] OTHER -> 5
\* The last unit of a stream.
LastUnit(out) == out[Len(out)]
\* A user message was submitted to conversation t in this step.
UserMessageSubmitted(t) ==
    /\ messages'[t] # messages[t]
    /\ messages'[t][1].role = "user"

\* C11: a status re-fetch that finds the run failed or cancelled ends the
\* stream in that step with an error unit that carries that status (or the
\* error of the re-fetch itself when the call fails), and submits nothing
\* more; no driver step goes back to an earlier position, a user message is
\* submitted only by the message step and a run is created only by the run
\* step, so each ask submits at most one message and creates at most one run.
C11_FailedRunReported ==
    [][/\ \A r \in Procs :
            /\ Steps(r, "drv_poll") /\ runs[req[r].run].status \in {"failed", "cancelled"} =>
                  /\ Returns(r, "drv_poll")
                  /\ response'.op = "ask"
                  /\ LastUnit(response'.out) \in
                        { ErrorUnit(<<"Run failed with status: ", runs[req[r].run].status>>),
                          ErrorUnit(<<"An error occurred: ", "runs.retrieve">>) }
                  /\ EngineUnchanged
            /\ \A pc \in DriverPcs : Steps(r, pc) =>
                  \/ DriverRank(req'[r].pc) > DriverRank(pc)
                  \/ pc = "drv_poll" /\ req'[r].pc = "drv_poll"
       /\ \A t \in ThreadIds : UserMessageSubmitted(t) =>
            \E r \in Procs : Steps(r, "drv_msg") /\ req[r].thread_id = t /\ runs' = runs
       /\ runs' # runs /\ Len(runs') # Len(runs) =>
            /\ Len(runs') = Len(runs) + 1
            /\ messages' = messages
            /\ \E r \in Procs : Steps(r, "drv_run") /\ req'[r].run = Len(runs')]_vars

\* C11 witness: the only run ever created was cancelled and the stream ended
\* with the error unit that names that status.
C11_Witness ==
    /\ response.op = "ask" /\ response.at = "drv_poll"
    /\ Len(runs) = 1 /\ runs[1].status = "cancelled"
    /\ LastUnit(response.out) = ErrorUnit(<<"Run failed with status: ", "cancelled">>)

\* k filler units.
Fillers(k) == [i \in 1..k |-> Filler]

\* C12: a stream in progress holds exactly one filler per status re-fetch made
\* so far, and a stream that ended after k re-fetches is exactly k fillers
\* followed by one final unit, a result or an error payload.
C12_FillerPerPollCycle ==
    /\ \A r \in Procs : req[r].out = Fillers(req[r].polls)
    /\ response.op = "ask" /\ response.at \in DriverPcs =>
          /\ Len(response.out) = response.polls + 1
          /\ SubSeq(response.out, 1, response.polls) = Fillers(response.polls)
          /\ LastUnit(response.out).kind \in {"json", "error"}

\* C12 witness: a run completed at the third re-fetch and the stream is three
\* fillers and then the extracted result.
C12_Witness ==
    /\ response.op = "ask" /\ response.at = "drv_list"
    /\ response.polls = 3
    /\ Len(response.out) = 4
    /\ \A i \in 1..3 : response.out[i] = Filler
    /\ response.out[4].kind = "json"

\* The positions of a stream that hold a final unit: a yield that is not the
\* filler, whatever its text.
FinalUnits(out) == {i \in 1..Len(out) : out[i].kind # "filler"}
\* The stream grew by nothing, or by one more filler.
SameOrOneMoreFiller(before, after) ==
    after = before \/ after = Append(before, Filler)

\* C13: a stream in progress holds fillers only; every driver step either
\* leaves the stream in progress, having yielded at most one more filler, or
\* ends it by yielding, after at most one more filler, exactly one final
\* unit; so every ended stream is fillers followed by one final unit, which
\* is its last unit, on every path: result, extraction failure, failed or
\* cancelled run, exception at any step.
C13_OneFinalUnitLast ==
    /\ [](\A r \in Procs : FinalUnits(req[r].out) = {})
    /\ [](response.op = "ask" /\ response.at \in DriverPcs =>
            /\ response.out # <<>>
            /\ FinalUnits(response.out) = {Len(response.out)})
    /\ [][\A r \in Procs : \A pc \in DriverPcs : Steps(r, pc) =>
            \/ /\ req'[r].pc \in DriverPcs
               /\ SameOrOneMoreFiller(req[r].out, req'[r].out)
            \/ /\ Returns(r, pc)
               /\ Len(response'.out) >= 1
               /\ SameOrOneMoreFiller(req[r].out,
                     SubSeq(response'.out, 1, Len(response'.out) - 1))
               /\ LastUnit(response'.out).kind \in {"json", "error"}]_vars

\* C13 witness: a run completed, the reply held no JSON object, and the stream
\* is fillers followed by the extraction error as its last unit.
C13_Witness ==
    /\ response.op = "ask" /\ response.at = "drv_list"
    /\ Len(response.out) >= 2
    /\ \A i \in 1..(Len(response.out) - 1) : response.out[i] = Filler
    /\ LastUnit(response.out) =
          ErrorUnit(<<"Failed to extract valid JSON from response.">>)

\* The stream of request r ended in this step from position pc with the
\* driver's own error payload for the call named at, after the units in out.
EndsWithDriverError(r, pc, at) ==
    /\ Returns(r, pc)
    /\ response' = [Answer("ask", HTTP_OK, None, pc) EXCEPT
                        !.out = Append(req[r].out, ErrorUnit(<<"An error occurred: ", at>>)),
                        !.polls = req[r].polls]

\* C14: a driver step whose engine call does not succeed (the message is not
\* submitted, the run is not created, the re-fetch returns no status, the
\* list returns no message) ends the stream in that step with one error
\* payload appended to the units already yielded; whatever the step, a stream
\* that ends is the body of a 200 response of ask and carries at most one
\* error payload.
C14_EngineFailureInBand ==
    [][\A r \in Procs :
          /\ Steps(r, "drv_msg") /\ req'[r].pc # "drv_run" =>
                EndsWithDriverError(r, "drv_msg", "messages.create") /\ EngineUnchanged
          /\ Steps(r, "drv_run") /\ runs' = runs =>
                EndsWithDriverError(r, "drv_run", "runs.create") /\ EngineUnchanged
          /\ Returns(r, "drv_poll") /\ response'.polls = req[r].polls =>
                EndsWithDriverError(r, "drv_poll", "runs.retrieve") /\ EngineUnchanged
          /\ Steps(r, "drv_list") /\ LastUnit(response'.out).kind = "error" =>
                \/ EndsWithDriverError(r, "drv_list", "messages.list")
                \/ EndsWithDriverError(r, "drv_list", "IndexError")
                \/ /\ Returns(r, "drv_list")
                   /\ LastUnit(response'.out) = ExtractUnit(messages[req[r].thread_id][1].text)
          /\ \A pc \in DriverPcs : Returns(r, pc) =>
                /\ response'.op = "ask"
                /\ response'.status = HTTP_OK
                /\ response'.out # <<>>
                /\ Cardinality({i \in 1..Len(response'.out) :
                                    response'.out[i].kind = "error"}) <= 1]_vars

\* C14 witness: a status re-fetch failed after one filler had been sent; the
\* response of ask is the 200 stream, ending with the error payload.
C14_Witness ==
    response = [Answer("ask", HTTP_OK, None, "drv_poll") EXCEPT
                   !.out = <<Filler, ErrorUnit(<<"An error occurred: ", "runs.retrieve">>)>>,
                   !.polls = 1]

\* The reply text request r is about to extract from.
ReplyOf(r) == messages[req[r].thread_id][1].text
\* Position i holds the first '{' of text; position j holds its last '}'.
FirstOpen(text, i) == text[i] = "{" /\ \A k \in 1..(i - 1) : text[k] # "{"
LastClose(text, j) == text[j] = "}" /\ \A k \in (j + 1)..Len(text) : text[k] # "}"
\* The characters of text from position i to position j, both included.
Between(text, i, j) == [k \in 1..(j - i + 1) |-> text[i + k - 1]]

\* C15: when the first '{' of the reply lies before its last '}', the unit
\* the extraction yields is the success unit whose text is exactly the
\* characters from that '{' to that '}', both included (unless the listing
\* call itself fails, and then nothing is extracted).
C15_CandidateFirstToLast ==
    [][\A r \in Procs : Steps(r, "drv_list") =>
          \A i, j \in 1..Len(ReplyOf(r)) :
             FirstOpen(ReplyOf(r), i) /\ LastClose(ReplyOf(r), j) /\ i <= j =>
                \/ EndsWithDriverError(r, "drv_list", "messages.list")
                \/ /\ Returns(r, "drv_list")
                   /\ response'.out = Append(req[r].out,
                         [kind |-> "json", text |-> Between(ReplyOf(r), i, j)])]_vars

\* C15 witness: one object with prose before and after it was extracted as
\* exactly that object.
C15_Witness ==
    /\ response.op = "ask" /\ response.at = "drv_list"
    /\ messages[1][1].text = <<"a", "{", "a", "}", "a">>
    /\ LastUnit(response.out) = [kind |-> "json", text |-> <<"{", "a", "}">>]

\* Opening braces minus closing braces among the first k characters.
Depth(text, k) ==
    Cardinality({i \in 1..k : text[i] = "{"}) - Cardinality({i \in 1..k : text[i] = "}"})
\* What every JSON document that is one object satisfies when none of its
\* braces sits inside a string literal, as in the texts over Alphabet: the
\* brace that opens it is closed by its last character and not before.
BracesNest(c) ==
    /\ Len(c) >= 2
    /\ \A k \in 1..(Len(c) - 1) : Depth(c, k) > 0
    /\ Depth(c, Len(c)) = 0

\* C16 (as claimed): the extraction ends with an error unit, never a success
\* unit, when the reply has no '{', has no '}', or the candidate from its
\* first '{' to its last '}' is not valid JSON.
C16_InvalidCandidateFails ==
    [][\A r \in Procs : Steps(r, "drv_list") =>
          /\ Positions(ReplyOf(r), "{") = {} \/ Positions(ReplyOf(r), "}") = {} =>
                LastUnit(response'.out).kind = "error"
          /\ \A i, j \in 1..Len(ReplyOf(r)) :
                /\ FirstOpen(ReplyOf(r), i) /\ LastClose(ReplyOf(r), j) /\ i <= j
                /\ ~BracesNest(Between(ReplyOf(r), i, j))
                => LastUnit(response'.out).kind = "error"]_vars

\* A request was received in this step and server thread r took it.
Received(r) == started' = started + 1 /\ Takes(r)
\* The step called neither the record store nor the engine and left every
\* server thread as it was.
NothingTouched ==
    /\ UNCHANGED <<userRecord, hist>>
    /\ EngineUnchanged
    /\ req' = req
\* The prompts and conversation ids a request body may carry, None if missing.
Prompts == {None} \cup (1..MaxRequests)
BodyThreadIds == {None} \cup ThreadIds

\* C17: a request to start_chat, reset_thread or ask without the user-token
\* header is answered 401 in the step that receives it, whatever its body
\* holds, and that step touches nothing; and a 401 is only ever given by
\* such a step.
C17_NoCredentialIs401 ==
    [][/\ \A r \in Procs : Received(r) =>
            /\ \A hasObjectId \in BOOLEAN :
                  /\ StartChatArrives(r, FALSE, hasObjectId) =>
                        response' = Answer("start_chat", HTTP_UNAUTHORIZED, None, "begin")
                        /\ NothingTouched
                  /\ ResetArrives(r, FALSE, hasObjectId) =>
                        response' = Answer("reset_thread", HTTP_UNAUTHORIZED, None, "begin")
                        /\ NothingTouched
            /\ \A data \in BOOLEAN, prompt \in Prompts, thread_id \in BodyThreadIds,
                  hasObjectId \in BOOLEAN :
                  AskArrives(r, FALSE, data, prompt, thread_id, hasObjectId) =>
                     response' = Answer("ask", HTTP_UNAUTHORIZED, None, "begin")
                     /\ NothingTouched
       /\ response' # response /\ response'.status = HTTP_UNAUTHORIZED =>
            response'.at = "begin" /\ NothingTouched]_vars

\* C17 witness: the first request was an ask without credential; it was
\* answered 401, the counter is what it was and the engine holds nothing new.
C17_Witness ==
    /\ response = Answer("ask", HTTP_UNAUTHORIZED, None, "begin")
    /\ started = 1
    /\ Quiet
    /\ Counter = hist.c0 /\ Handle = hist.h0 /\ hist.authorized = 0
    /\ runs = <<>>

\* C18: a request with the user-token header but without objectId (start_chat,
\* reset_thread), or without a body, prompt, thread_id or objectId (ask), is
\* answered 400 in the step that receives it, and that step touches nothing:
\* no read or write of the counter, no handle created or deleted, no message
\* or run submitted; and a 400 is only ever given by such a step.
C18_MissingFieldIs400 ==
    [][/\ \A r \in Procs : Received(r) =>
            /\ StartChatArrives(r, TRUE, FALSE) =>
                  response' = Answer("start_chat", HTTP_BAD_REQUEST, None, "begin")
                  /\ NothingTouched
            /\ ResetArrives(r, TRUE, FALSE) =>
                  response' = Answer("reset_thread", HTTP_BAD_REQUEST, None, "begin")
                  /\ NothingTouched
            /\ \A data \in BOOLEAN, prompt \in Prompts, thread_id \in BodyThreadIds,
                  hasObjectId \in BOOLEAN :
                  /\ ~data \/ prompt = None \/ thread_id = None \/ ~hasObjectId
                  /\ AskArrives(r, TRUE, data, prompt, thread_id, hasObjectId)
                  => response' = Answer("ask", HTTP_BAD_REQUEST, None, "begin")
                     /\ NothingTouched
       /\ response' # response /\ response'.status = HTTP_BAD_REQUEST =>
            response'.at = "begin" /\ NothingTouched]_vars

\* C18 witness: a reset_thread without objectId was answered 400 and the
\* user's conversation and handle are untouched.
C18_Witness ==
    /\ response = Answer("reset_thread", HTTP_BAD_REQUEST, None, "begin")
    /\ Quiet
    /\ Handle # None /\ Handle = hist.h0
    /\ threads = {Handle}
    /\ hist.retired = {}

\* Request r comes to position pc in this step.
Enters(r, pc) == req'[r].pc = pc /\ req[r].pc # pc

\* C19: an ask comes to the write of the counter only from a read that found
\* the counter below the limit, and to the submission of its prompt only
\* from a write that stored the value read plus one; the gate's steps submit
\* nothing; a read or write that fails ends the ask with 500 and an empty
\* body (a read may also end it with 429, only at or above the limit), the
\* record unchanged; and a user message or a run appears in the engine only
\* by the driver step of an ask that is past the gate.
C19_SubmitOnlyAfterGate ==
    [][/\ \A r \in Procs :
            /\ Enters(r, "ask_put") =>
                  /\ req[r].pc = "ask_get"
                  /\ Counter < DailyLimit
                  /\ req'[r].daily_count = Counter
            /\ Enters(r, "drv_msg") =>
                  /\ req[r].pc = "ask_put"
                  /\ req[r].daily_count < DailyLimit
                  /\ Counter' = req[r].daily_count + 1
                  /\ hist'.authorized = hist.authorized + 1
            /\ Steps(r, "ask_get") \/ Steps(r, "ask_put") => EngineUnchanged
            /\ Returns(r, "ask_get") =>
                  /\ response' \in { Answer("ask", HTTP_SERVER_ERROR, None, "ask_get"),
                                     Answer("ask", HTTP_TOO_MANY, None, "ask_get") }
                  /\ response'.status = HTTP_TOO_MANY => Counter >= DailyLimit
                  /\ UNCHANGED userRecord
            /\ Returns(r, "ask_put") =>
                  /\ response' = Answer("ask", HTTP_SERVER_ERROR, None, "ask_put")
                  /\ UNCHANGED userRecord
       /\ \A t \in ThreadIds : UserMessageSubmitted(t) =>
            \E r \in Procs : /\ Steps(r, "drv_msg")
                             /\ req[r].op = "ask"
                             /\ messages'[t][1].prompt = req[r].prompt
       /\ Len(runs') > Len(runs) =>
            \E r \in Procs : Steps(r, "drv_run") /\ req[r].op = "ask"]_vars

\* C19 witness: the only request was an ask whose counter write failed; it
\* was answered 500, the counter is what it was and the engine holds no
\* message and no run.
C19_Witness ==
    /\ response = Answer("ask", HTTP_SERVER_ERROR, None, "ask_put")
    /\ started = 1
    /\ Quiet
    /\ Counter = hist.c0 /\ hist.authorized = 0
    /\ runs = <<>>
    /\ \A t \in ThreadIds : messages[t] = <<>>

\* C20: with requests served one at a time, the stored counter is always its
\* initial value (zero when the field was absent) plus the number of asks
\* authorized so far; the write that authorizes an ask finds the counter
\* still at the value that ask read and stores that value plus one, which is
\* one when the record has no counter field; a request whose record-store
\* call fails is not authorized and changes nothing.
C20_CounterCountsAuthorized ==
    /\ [](Counter = hist.c0 + hist.authorized)
    /\ []("dailyQuestionCount" \notin DOMAIN userRecord =>
            hist.c0 = 0 /\ hist.authorized = 0)
    /\ [][\A r \in Procs : Steps(r, "ask_put") =>
            \/ /\ req'[r].pc = "drv_msg"
               /\ req[r].daily_count = Counter
               /\ Counter' = Counter + 1
               /\ userRecord'["dailyQuestionCount"] = Counter + 1
               /\ hist'.authorized = hist.authorized + 1
            \/ /\ Returns(r, "ask_put")
               /\ UNCHANGED <<userRecord, hist>>]_vars

\* C20 witness: a user whose record had no counter was authorized twice, one
\* ask after the other, and the counter stands at two.
C20_Witness ==
    /\ hist.c0 = 0
    /\ hist.authorized = 2
    /\ userRecord["dailyQuestionCount"] = 2
    /\ Quiet

\* The stream unit that forwards one text fragment.
TextUnit(fragment) == [kind |-> "text", text |-> <<fragment>>]
\* The chunks of a feed that carry text, in arrival order, as stream units.
Forwarded(feed) ==
    LET texts == SelectSeq(feed, LAMBDA chunk : chunk # NoParts)
    IN  [i \in 1..Len(texts) |-> TextUnit(texts[i])]

\* C21 (as claimed): at every moment of an ask_google stream the units sent
\* so far are the text fragments received so far from the engine's feed, in
\* arrival order.
C21_EveryFragmentForwarded ==
    \A r \in Procs : req[r].op = "ask_google" => req[r].out = Forwarded(req[r].feed)

\* C22: a webhook event with a verified signature is answered 200 in the
\* receiving step or goes on to the subscription lookup; the lookup and the
\* update answer 200 however they end (failed call, no row, update written or
\* not); so the only answer of stripe_webhook other than 200 is the 400 given
\* before any call, for a missing or invalid signature.
C22_WebhookAlwaysAcknowledged ==
    /\ [](response.op = "stripe_webhook" /\ response.status # HTTP_OK =>
            response = Answer("stripe_webhook", HTTP_BAD_REQUEST, None, "begin"))
    /\ [][\A r \in Procs :
            /\ Received(r) =>
                  \A type \in EventTypes, session \in Sessions :
                     WebhookArrives(r, TRUE, TRUE, type, session) =>
                        \/ response' = Answer("stripe_webhook", HTTP_OK, None, "begin")
                        \/ /\ req'[r].pc = "wh_query"
                           /\ type = "checkout.session.completed"
                           /\ HasIdentifiers(session)
            /\ Steps(r, "wh_query") =>
                  \/ response' = Answer("stripe_webhook", HTTP_OK, None, "wh_query")
                  \/ req'[r].pc = "wh_put" /\ subscription # NoRow
            /\ Steps(r, "wh_put") =>
                  response' = Answer("stripe_webhook", HTTP_OK, None, "wh_put")]_vars

\* C22 witness: the only request was a verified checkout event whose update
\* of the subscription failed; it was answered 200 and the row is inactive.
C22_Witness ==
    /\ response = Answer("stripe_webhook", HTTP_OK, None, "wh_put")
    /\ started = 1
    /\ subscription = InactiveRow

\* The status of some run differs after this step.
SomeStatusChanges ==
    \E id \in 1..Len(runs) : id <= Len(runs') /\ runs'[id].status # runs[id].status

\* C23: a step in which the status of a run changes is a step of the engine
\* alone (no request moves), along the run's lifecycle; a driver step leaves
\* every existing run as it is, the run step only adding its new queued run;
\* the driver comes to the status check only from the run step, and stays at
\* it only after a re-fetch that returned queued, in_progress or
\* cancelling: a re-fetch that returns any other status is its last.
C23_DriverOnlyObserves ==
    [][/\ SomeStatusChanges =>
            /\ req' = req /\ response' = response
            /\ \A id \in 1..Len(runs) :
                  \/ runs'[id] = runs[id]
                  \/ /\ runs'[id].status \in RunSuccessors(runs[id].status)
                     /\ runs'[id].thread = runs[id].thread
       /\ \A r \in Procs :
            /\ \A pc \in DriverPcs : Steps(r, pc) =>
                  /\ \A id \in 1..Len(runs) : runs'[id] = runs[id]
                  /\ Len(runs') > Len(runs) =>
                        pc = "drv_run" /\ runs'[Len(runs')].status = "queued"
            /\ Enters(r, "drv_poll") => req[r].pc = "drv_run"
            /\ Steps(r, "drv_poll") /\ req'[r].pc = "drv_poll" =>
                  /\ runs[req[r].run].status \in PollingStatuses
                  /\ req'[r].polls = req[r].polls + 1
            /\ Steps(r, "drv_poll") /\ runs[req[r].run].status \notin PollingStatuses =>
                  req'[r].pc \in {"drv_list", "done"}
            /\ Steps(r, "drv_list") => req'[r].polls = 0 /\ response'.polls = req[r].polls
      ]_vars

\* C23 witness: the engine reported the run failed at the second re-fetch,
\* the stream ended there, and the run is still failed.
C23_Witness ==
    /\ response.op = "ask" /\ response.at = "drv_poll"
    /\ response.polls = 2
    /\ Len(runs) = 1 /\ runs[1].status = "failed"
    /\ Quiet

\* The runs on conversation t that have not reached a terminal status.
ActiveRuns(t) ==
    {id \in 1..Len(runs) : runs[id].thread = t /\ runs[id].status \in PollingStatuses}

\* C24 (as claimed): no prompt is submitted to a conversation while a run on
\* that conversation has not reached a terminal status.
C24_OnePromptAtATime ==
    [][\A t \in ThreadIds : UserMessageSubmitted(t) => ActiveRuns(t) = {}]_vars

\* The newest message of the conversation request r works on.
NewestOf(r) == messages[req[r].thread_id][1]

\* C25 (as claimed): the message the driver reads after its run completed,
\* and extracts its result from, is the assistant's reply to its own run.
C25_ResultFromOwnRun ==
    [][\A r \in Procs :
          /\ Steps(r, "drv_list")
          /\ LastUnit(response'.out) = ExtractUnit(NewestOf(r).text)
          => /\ NewestOf(r).role = "assistant"
             /\ NewestOf(r).prompt = runs[req[r].run].prompt
             /\ runs[req[r].run].prompt = req[r].prompt]_vars

\* A field of a record: its value in a one-element sequence, empty if absent.
FieldOf(record, key) == IF key \in DOMAIN record THEN <<record[key]>> ELSE <<>>
\* The positions of the registry (start_chat, reset_thread) and of ask.
RegistryPcs == {"goc_get", "goc_create", "goc_put", "rst_get", "rst_delete", "rst_put"}
AskPcs == {"ask_get", "ask_put"} \cup DriverPcs

\* C26: no step of start_chat or reset_thread changes the counter field of
\* the user record (its presence or its value), no step of ask changes the
\* handle field, and no step adds any other field, in every interleaving.
C26_OwnFieldOnly ==
    [][/\ \A r \in Procs :
            /\ \A pc \in RegistryPcs : Steps(r, pc) =>
                  FieldOf(userRecord', "dailyQuestionCount") =
                     FieldOf(userRecord, "dailyQuestionCount")
            /\ \A pc \in AskPcs : Steps(r, pc) =>
                  FieldOf(userRecord', "currentThreadId") =
                     FieldOf(userRecord, "currentThreadId")
       /\ DOMAIN userRecord' \subseteq
             DOMAIN userRecord \cup {"currentThreadId", "dailyQuestionCount"}]_vars

\* C26 witness: a reset completed while an authorized ask was streaming; the
\* handle is cleared and the counter still holds the ask's increment.
C26_Witness ==
    /\ response = Answer("reset_thread", HTTP_OK, None, "rst_put")
    /\ hist.c0 = DailyLimit - 1 /\ hist.authorized = 1
    /\ userRecord = [currentThreadId |-> None, dailyQuestionCount |-> DailyLimit]
    /\ \E r \in Procs : req[r].op = "ask" /\ req[r].pc \in DriverPcs

C28_ResetWithoutHandle ==
    [][/\ \A r \in Procs :
            /\ Steps(r, "rst_get") /\ Handle = None =>
                  /\ \/ req'[r].pc = "rst_put" /\ req'[r].tid = None
                     \/ response' = Answer("reset_thread", HTTP_SERVER_ERROR, None, "rst_get")
                  /\ UNCHANGED userRecord /\ EngineUnchanged
            /\ Enters(r, "rst_delete") =>
                  req[r].pc = "rst_get" /\ Handle # None /\ req'[r].tid = Handle
            /\ Steps(r, "rst_put") /\ req[r].tid = None =>
                  /\ EngineUnchanged
                  /\ \/ /\ response' = Answer("reset_thread", HTTP_OK, None, "rst_put")
                        /\ FieldOf(userRecord', "currentThreadId") = <<None>>
                     \/ /\ response' = Answer("reset_thread", HTTP_SERVER_ERROR, None, "rst_put")
                        /\ UNCHANGED userRecord
       /\ threads' # threads /\ threads' \subseteq threads =>
            \E r \in Procs : Steps(r, "rst_delete") /\ threads' = threads \ {req[r].tid}]_vars

\* C28 witness: the user never had a conversation; the only request was a
\* reset, answered 200, and the record now carries the cleared field.
C28_Witness ==
    /\ hist.h0 = None
    /\ started = 1
    /\ response = Answer("reset_thread", HTTP_OK, None, "rst_put")
    /\ FieldOf(userRecord, "currentThreadId") = <<None>>
    /\ threads = {} /\ nextThreadId = 1

\* The positions of verify_payment_session after its body checks.
VerifyPcs == {"vps_retrieve", "vps_query", "vps_put"}
\* The session qualifies for activation.
Qualifies(session) ==
    /\ session.status = "complete" /\ session.payment_status = "paid"
    /\ session.client_reference_id # None /\ session.subscription # None

\* C29: verify_payment_session answers a session that does not qualify
\* (not complete, not paid, no user reference or no subscription id) with 400
\* at the retrieval step; only its write step changes the subscription row,
\* for a session that qualifies, setting it active with the session's
\* subscription id and answering 200; every other return of the handler
\* carries 400, 404 or 500 and leaves the row as it was.
C29_ActiveOnlyWhenPaid ==
    [][\A r \in Procs :
          /\ Steps(r, "vps_retrieve") =>
                \A session \in Sessions : ~Qualifies(session) /\ VerifySession(r, session) =>
                   response' = Answer("verify_payment_session", HTTP_BAD_REQUEST, None,
                                      "vps_retrieve")
          /\ Enters(r, "vps_query") => Qualifies(req'[r].session)
          /\ Enters(r, "vps_put") => Qualifies(req[r].session) /\ subscription # NoRow
          /\ \A pc \in VerifyPcs : Steps(r, pc) /\ req[r].op = "verify_payment_session" =>
                \/ /\ UNCHANGED subscription
                   /\ \/ req'[r].pc \in VerifyPcs
                      \/ /\ Returns(r, pc)
                         /\ response'.status \in
                               {HTTP_BAD_REQUEST, HTTP_NOT_FOUND, HTTP_SERVER_ERROR}
                \/ /\ pc = "vps_put"
                   /\ Qualifies(req[r].session)
                   /\ response' = Answer("verify_payment_session", HTTP_OK, None, "vps_put")
                   /\ subscription'.status = "active"
                   /\ subscription'.stripeSubscriptionId = req[r].session.subscription
                   /\ subscription'.objectId = subscription.objectId
          /\ Received(r) =>
                \A data \in BOOLEAN, hasSessionId \in BOOLEAN :
                   VerifyArrives(r, data, hasSessionId) /\ ~(data /\ hasSessionId) =>
                      /\ response' = Answer("verify_payment_session", HTTP_BAD_REQUEST,
                                            None, "begin")
                      /\ UNCHANGED subscription]_vars

\* C29 witness: the only request was a verification of a paid, complete
\* session; it was answered 200 and the row is active with its subscription id.
C29_Witness ==
    /\ started = 1
    /\ response = Answer("verify_payment_session", HTTP_OK, None, "vps_put")
    /\ subscription = [objectId |-> 1, status |-> "active", stripeSubscriptionId |-> 1]

\* C30: no step of the run driver writes the user record: whether the stream
\* goes on or ends, with a result, with the error of a failed or cancelled
\* run, of an exception or of a failed extraction, the record is the same
\* after the step as before and the count of authorized asks stands; the
\* counter field is only ever written by the gate's write step, with the
\* value that request read plus one.
C30_NoRefund ==
    [][/\ \A r \in Procs : \A pc \in DriverPcs : Steps(r, pc) =>
            /\ UNCHANGED userRecord
            /\ hist'.authorized = hist.authorized
       /\ FieldOf(userRecord', "dailyQuestionCount") #
             FieldOf(userRecord, "dailyQuestionCount") =>
            \E r \in Procs : /\ Steps(r, "ask_put")
                             /\ Counter' = req[r].daily_count + 1]_vars

\* C30 witness: the last unit of quota was consumed by an ask whose reply
\* held no JSON object; the stream ended with the extraction error and the
\* counter stands at the limit.
C30_Witness ==
    /\ hist.c0 = DailyLimit - 1 /\ hist.authorized = 1
    /\ Quiet
    /\ response.op = "ask" /\ response.at = "drv_list"
    /\ LastUnit(response.out) =
          ErrorUnit(<<"Failed to extract valid JSON from response.">>)
    /\ Counter = DailyLimit

\* C31: the stored quota counter never decreases: every write of the counter
\* field stores a value greater than or equal to the value stored just
\* before that write, in any interleaving of the ask requests of the user.
C31_CounterNeverDecreases ==
    [][\A r \in Procs : Steps(r, "ask_put") /\ userRecord' # userRecord =>
            Counter' >= Counter]_vars

\* C33 (as claimed): whenever the reply of a completed run holds both a '{'
\* and a '}', the success unit the driver yields for it is non-empty, starts
\* with '{' and ends with '}', also when every '}' precedes the first '{'.
C33_SuccessUnitIsBraced ==
    [][\A r \in Procs :
          /\ Steps(r, "drv_list")
          /\ Positions(ReplyOf(r), "{") # {} /\ Positions(ReplyOf(r), "}") # {}
          /\ LastUnit(response'.out).kind = "json"
          => LET text == LastUnit(response'.out).text
             IN  /\ Len(text) > 0
                 /\ text[1] = "{"
                 /\ text[Len(text)] = "}"]_vars

\* C32 (as claimed): in every reachable state a non-empty handle recorded on
\* the user record refers to a conversation that exists on the engine: one
\* that was allocated and has not been deleted.
C32_RecordedHandleExists ==
    Handle # None => Handle \in threads

\* C34 (as claimed): every prompt and every run that ask submits goes to the
\* conversation handle recorded on the user record at that moment, never to
\* a handle that the request supplied and that is not, or no longer, the
\* recorded one.
C34_AskTargetsRecordedHandle ==
    [][\A r \in Procs :
          \/ Steps(r, "drv_msg") /\ messages' # messages
          \/ Steps(r, "drv_run") /\ runs' # runs
          => req[r].thread_id = Handle]_vars

====
